---- MODULE Spec2Model ----
(***************************************************************************)
(* A model of the Blitz WinUI bridge (apps/BlitzWinRTTestApp/Blitz):       *)
(*   - NetworkFetcher : the fire-and-forget fetch coroutine (DoFetch),     *)
(*   - Attacher       : the swap-chain attacher,                           *)
(*   - BlitzView      : the control that owns panel, attacher, host and    *)
(*                      the render loop.                                   *)
(* Each component has its own next-state relation and specification; the   *)
(* variables of the other components stay at their initial values.         *)
(***************************************************************************)
EXTENDS Integers, Sequences, FiniteSets, TLC

VARIABLES
    \* ---- NetworkFetcher -------------------------------------------------
    fetcher_m_host,     \* NetworkFetcher::m_host: 0 = nullptr, 1 = the host
    ownerHoldsHost,     \* the HostBridge (BlitzView::m_host) still owns that host
    frames,             \* the DoFetch coroutine frames, in order of issuance, each
                        \* with the Host::CompleteFetch calls it has made
    f_thread,           \* the thread the latest step of a coroutine ran on
    ui_in_host,         \* the UI thread is inside a call into the host (RenderOnce)
    ownerHoldsFetcher   \* the fetcher's owner still holds its reference to it

VARIABLES
    \* ---- Attacher -------------------------------------------------------
    attacher_m_panel,   \* Attacher::m_panel: 0 = nullptr, 1 = the captured panel
    m_lastSwapchainPtr, \* Attacher::m_lastSwapchainPtr (a 64-bit value)
    attachCalls,        \* number of AttachSwapChain calls made so far
    setSwapChainCalls,  \* the ISwapChainPanelNative::SetSwapChain calls forwarded
    ctorPanelArg,       \* what the attacher's constructor was given
    attacherEscaped     \* an exception left a member function of the attacher

VARIABLES
    \* ---- BlitzView ------------------------------------------------------
    m_panel,              \* 0 = nullptr, else the bound SwapChainPanel
    m_attacher,           \* 0 = nullptr, else the panel the attacher captured
    m_host,               \* 0 = nullptr, else the panel the host presents into
    m_renderLoopAttached,
    m_renderingToken,
    eventTokens,          \* m_loadedToken .. m_pointerWheelChangedToken, by event
    templateChild,        \* what GetTemplateChild(L"swapChainPanel") returns
    panelSubs,            \* per panel and event: the tokens of the bridge's handlers
    frameSubs,            \* tokens registered on CompositionTarget::Rendering
    frameTokensIssued,    \* how many tokens the frame clock has handed out
    calls,                \* the calls into the host made by the latest handler
    handled,              \* the latest event's Handled flag after its handler
    fault,                \* a handler faulted (an exception or a null call escaped)
    lastOp,               \* the handler that ran last
    lastEvent,            \* the pointer or wheel event that handler forwarded
    hostsConstructed,     \* successful Host constructions so far
    subsAtBind            \* subscriptions still held when OnApplyTemplate subscribed

fetchVars == <<fetcher_m_host, ownerHoldsHost, frames, f_thread, ui_in_host,
               ownerHoldsFetcher>>

attacherVars == <<attacher_m_panel, m_lastSwapchainPtr, attachCalls, setSwapChainCalls,
                  ctorPanelArg, attacherEscaped>>

bridgeVars == <<m_panel, m_attacher, m_host, m_renderLoopAttached, m_renderingToken,
                eventTokens, templateChild, panelSubs, frameSubs, frameTokensIssued,
                calls, handled, fault, lastOp, lastEvent, hostsConstructed,
                subsAtBind>>

vars == <<fetchVars, attacherVars, bridgeVars>>

(***************************************************************************)
(* Bounds of the model.                                                    *)
(***************************************************************************)
MaxFetches == 2     \* fetches issued in one behaviour
MaxAttach == 3      \* AttachSwapChain calls made in one behaviour
NumPanels == 2      \* SwapChainPanel instances a template may yield
MaxStarts == 2      \* render-loop subscriptions made by direct start() calls

(***************************************************************************)
(*                            NetworkFetcher                               *)
(***************************************************************************)
NoHost == 0
TheHost == 1

Threads == {"UI", "Worker"}
Urls == {"ok", "bad"}                 \* "bad": Uri(url) rejects the string
Methods == {"GET", "POST"}
Bodies == {<<>>, <<72, 73>>}          \* response bodies (byte sequences)
DeliveryOutcomes == {"ok", "throw"}   \* CompleteFetch returns / fails with an HRESULT

\* e.message() of the caught hresult_error: the diagnostic text, a non-empty string.
ErrorMessage == "hresult_error"

\* The context a co_await on the HTTP operation resumes in. DoFetch names no
\* context (no resume_foreground, no captured apartment_context): it is the
\* awaiter's choice, the caller's context or a thread-pool thread.
ResumeContexts(caller) == {caller, "Worker"}

\* The correlation keys handed to CompleteFetch: the coroutine's own by-value
\* parameters requestId and docId.
DeliveredKeysOfLastIssued(fr) ==
    LET last == IF frames = <<>> THEN fr ELSE frames[Len(frames)] IN
    [requestId |-> last.requestId, docId |-> last.docId]

DeliveredKeys(fr) == [requestId |-> fr.requestId, docId |-> fr.docId]

\* One Host::CompleteFetch(requestId, docId, success, bytes, errorMessage) call.
Completion(fr, success, bytes, msg) ==
    [requestId |-> DeliveredKeys(fr).requestId,
     docId |-> DeliveredKeys(fr).docId,
     success |-> success, bytes |-> bytes, errorMessage |-> msg]

\* catch (hresult_error const& e): if (m_host) CompleteFetch(.., false, {}, e.message()).
\* A failure of that call is thrown inside the handler and leaves the coroutine.
CatchBlock(fr, d2) ==
    IF fetcher_m_host # NoHost
    THEN [calls |-> <<Completion(fr, FALSE, <<>>, ErrorMessage)>>,
          escaped |-> (d2 = "throw")]
    ELSE [calls |-> <<>>, escaped |-> FALSE]

\* Lines 49-55: the body is copied into `bytes`; if (m_host) CompleteFetch(.., true,
\* bytes, L""). The call is inside the try block: its hresult_error is caught by the
\* handler below it, which delivers again.
SuccessBlock(fr, body, d1, d2) ==
    IF fetcher_m_host # NoHost
    THEN LET first == <<Completion(fr, TRUE, body, "")>> IN
         IF d1 = "throw"
         THEN LET c == CatchBlock(fr, d2) IN
              [calls |-> first \o c.calls, escaped |-> c.escaped]
         ELSE [calls |-> first, escaped |-> FALSE]
    ELSE [calls |-> <<>>, escaped |-> FALSE]

\* The coroutine ends: co_return, or an exception no handler caught, which
\* fire_and_forget turns into termination of the process.
\* The frame is destroyed; the log keeps its keys, its calls and what the
\* request met: "success" (with the body), "failure" (an hresult_error) or
\* "fault" (any other exception).
Finished(fr, outcome, body, r) ==
    [fr EXCEPT !.pc = IF r.escaped THEN "terminated" ELSE "done",
               !.calls = fr.calls \o r.calls,
               !.outcome = outcome, !.body = body, !.caller = "-"]

f_terminated == \E i \in DOMAIN frames : frames[i].pc = "terminated"

\* Line 41: auto lifetime = get_strong(). A frame that has not ended holds one
\* strong reference to the fetcher; it is released with the frame.
HeldByFrameNone(pc) == 0

HeldByFrame(pc) == IF pc \in {"awaitGet", "awaitRead"} THEN 1 ELSE 0

\* The fetcher's reference count; the object is destroyed when it reaches 0.
FetcherRefs ==
    (IF ownerHoldsFetcher THEN 1 ELSE 0)
        + Cardinality({i \in DOMAIN frames : HeldByFrame(frames[i].pc) > 0})

\* NetworkFetcher::Fetch -> DoFetch up to its first suspension point. An
\* unparsable url throws from Uri(url) inside the try block, so the handler runs
\* (and delivers) before Fetch returns to its caller.
Fetch(requestId, docId, url, method, caller, d2) ==
    /\ ~f_terminated
    /\ ownerHoldsFetcher
    /\ Len(frames) < MaxFetches
    /\ caller = "UI" => ~ui_in_host
    /\ LET fr == [requestId |-> requestId, docId |-> docId,
                  caller |-> caller, pc |-> "awaitGet", calls |-> <<>>,
                  outcome |-> "pending", body |-> <<>>,
                  hostAtIssue |-> (fetcher_m_host # NoHost /\ ownerHoldsHost)]
       IN frames' = Append(frames, IF url = "bad"
                                   THEN Finished(fr, "failure", <<>>, CatchBlock(fr, d2))
                                   ELSE fr)
    /\ f_thread' = caller
    /\ UNCHANGED <<fetcher_m_host, ownerHoldsHost, ui_in_host,
                   ownerHoldsFetcher, attacherVars, bridgeVars>>

\* co_await m_client.GetAsync(uri) completes; response.EnsureSuccessStatusCode().
GetOutcomes == {"response", "transportError", "badStatus"}

ResumeAfterGet(i, outcome, thread, d2) ==
    /\ ~f_terminated
    /\ i \in DOMAIN frames
    /\ frames[i].pc = "awaitGet"
    /\ thread \in ResumeContexts(frames[i].caller)
    /\ thread = "UI" => ~ui_in_host
    /\ LET fr == frames[i] IN
       frames' = [frames EXCEPT ![i] =
                    IF outcome = "response"
                    THEN [fr EXCEPT !.pc = "awaitRead"]
                    ELSE Finished(fr, "failure", <<>>, CatchBlock(fr, d2))]
    /\ f_thread' = thread
    /\ UNCHANGED <<fetcher_m_host, ownerHoldsHost, ui_in_host,
                   ownerHoldsFetcher, attacherVars, bridgeVars>>

\* co_await response.Content().ReadAsBufferAsync() completes; lines 49-55.
\* "readError": the read fails with an hresult_error. "allocFail": the
\* std::vector<uint8_t> bytes(buffer.Length()) allocation throws std::bad_alloc,
\* which no handler of DoFetch catches.
ReadOutcomes ==
    {[kind |-> "body", body |-> b] : b \in Bodies}
        \cup {[kind |-> k, body |-> <<>>] : k \in {"readError", "allocFail"}}

ResumeAfterRead(i, outcome, thread, d1, d2) ==
    /\ ~f_terminated
    /\ i \in DOMAIN frames
    /\ frames[i].pc = "awaitRead"
    /\ thread \in ResumeContexts(frames[i].caller)
    /\ thread = "UI" => ~ui_in_host
    /\ LET fr == frames[i] IN
       frames' = [frames EXCEPT ![i] =
                    CASE outcome.kind = "readError" ->
                            Finished(fr, "failure", <<>>, CatchBlock(fr, d2))
                      [] outcome.kind = "allocFail" ->
                            Finished(fr, "fault", <<>>,
                                     [calls |-> <<>>, escaped |-> TRUE])
                      [] OTHER ->
                            Finished(fr, "success", outcome.body,
                                     SuccessBlock(fr, outcome.body, d1, d2))]
    /\ f_thread' = thread
    /\ UNCHANGED <<fetcher_m_host, ownerHoldsHost, ui_in_host,
                   ownerHoldsFetcher, attacherVars, bridgeVars>>

\* The bridge gives up its HostHandle (BlitzView::m_host is released with the
\* control). The fetcher's own m_host is a second strong reference, set in the
\* constructor and never cleared.
ReleaseHost ==
    /\ ~f_terminated
    /\ ownerHoldsHost
    /\ ~ui_in_host
    /\ ownerHoldsHost' = FALSE
    /\ UNCHANGED <<fetcher_m_host, frames, f_thread, ui_in_host,
                   ownerHoldsFetcher, attacherVars, bridgeVars>>

\* The owner drops its reference to the fetcher (BlitzView::m_fetcher is reset
\* or released with the control).
ReleaseFetcher ==
    /\ ~f_terminated
    /\ ownerHoldsFetcher
    /\ ownerHoldsFetcher' = FALSE
    /\ UNCHANGED <<fetcher_m_host, ownerHoldsHost, frames, f_thread, ui_in_host,
                   attacherVars, bridgeVars>>

\* BlitzView::OnRendering on the UI thread: m_host.RenderOnce() is entered ...
RenderOnceEnter ==
    /\ ~f_terminated
    /\ ownerHoldsHost
    /\ ~ui_in_host
    /\ ui_in_host' = TRUE
    /\ UNCHANGED <<fetcher_m_host, ownerHoldsHost, frames, f_thread,
                   ownerHoldsFetcher, attacherVars, bridgeVars>>

\* ... and returns.
RenderOnceReturn ==
    /\ ~f_terminated
    /\ ui_in_host
    /\ ui_in_host' = FALSE
    /\ UNCHANGED <<fetcher_m_host, ownerHoldsHost, frames, f_thread,
                   ownerHoldsFetcher, attacherVars, bridgeVars>>

\* The (requestId, docId) pairs the caller issues.
RequestKeys == {<<7, 3>>, <<8, 4>>}

FetchCall ==
    \E key \in RequestKeys, url \in Urls, method \in Methods,
       caller \in Threads, d2 \in DeliveryOutcomes :
        Fetch(key[1], key[2], url, method, caller, d2)

GetCompletes ==
    \E i \in 1..MaxFetches, outcome \in GetOutcomes, thread \in Threads,
       d2 \in DeliveryOutcomes :
        ResumeAfterGet(i, outcome, thread, d2)

ReadCompletes ==
    \E i \in 1..MaxFetches, outcome \in ReadOutcomes, thread \in Threads,
       d1 \in DeliveryOutcomes, d2 \in DeliveryOutcomes :
        ResumeAfterRead(i, outcome, thread, d1, d2)

\* NetworkFetcher::NetworkFetcher(host): m_host(host). The bridge creates the
\* fetcher for the host it owns (BlitzView.h, m_fetcher).
NetworkFetcherCtor(host) ==
    /\ frames = <<>>
    /\ fetcher_m_host = NoHost
    /\ fetcher_m_host' = host
    /\ ownerHoldsHost' = TRUE
    /\ ownerHoldsFetcher' = TRUE
    /\ UNCHANGED <<frames, f_thread, ui_in_host, attacherVars, bridgeVars>>

NewFetcher == NetworkFetcherCtor(TheHost)

\* The state of NetworkFetcher(nullptr), no fetch issued.
InitFetch ==
    /\ fetcher_m_host = NoHost
    /\ ownerHoldsHost = FALSE
    /\ frames = <<>>
    /\ f_thread = "UI"
    /\ ui_in_host = FALSE
    /\ ownerHoldsFetcher = TRUE

NextFetch ==
    \/ NewFetcher
    \/ FetchCall
    \/ GetCompletes
    \/ ReadCompletes
    \/ ReleaseHost
    \/ RenderOnceEnter
    \/ RenderOnceReturn

\* The fetcher and its coroutines, with the owner free to release the fetcher.
NextLifetime ==
    \/ NewFetcher
    \/ FetchCall
    \/ GetCompletes
    \/ ReadCompletes
    \/ ReleaseFetcher

(***************************************************************************)
(*                                Attacher                                 *)
(***************************************************************************)
\* A uint64_t as its four 16-bit words, most significant first.
Zero64 == <<0, 0, 0, 0>>
\* 0xFEEDFACECAFEBEEF
Sentinel64 == <<65261, 64206, 51966, 48879>>

\* The surface handles tried: null, the test sentinel, values that share one
\* half with the sentinel, and ordinary pointers.
Handles ==
    {Zero64, Sentinel64, <<0, 0, 51966, 48879>>, <<65261, 64206, 0, 0>>,
     <<0, 0, 0, 1>>, <<32767, 0, 4660, 22136>>}

\* What the constructor is given: nullptr, an object that is not a
\* SwapChainPanel (panel.as<SwapChainPanel>() throws), or a SwapChainPanel.
PanelArgs == {"null", "other", "panel"}

\* Lines 36-47: swapchainPtr == 0, or swapchainPtr == 0xFEEDFACECAFEBEEFULL.
IsIgnoredHandleNullOnly(ptr) == ptr = Zero64

IsIgnoredHandle(ptr) == ptr = Zero64 \/ ptr = Sentinel64

\* Lines 14-25: m_panel = panel.as<SwapChainPanel>() for a non-null panel; the
\* cast of anything else throws and leaves m_panel null.
CapturedPanelUnchecked(panel) == IF panel = "null" THEN 0 ELSE 1

CapturedPanel(panel) == IF panel = "panel" THEN 1 ELSE 0

\* Attacher::Attacher(panel). The failed cast is thrown inside the try block,
\* whose catch (...) swallows it: nothing leaves the constructor.
AttacherCtor(panel) ==
    /\ attacher_m_panel' = CapturedPanel(panel)
    /\ m_lastSwapchainPtr' = Zero64
    /\ ctorPanelArg' = panel
    /\ attacherEscaped' = FALSE
    /\ UNCHANGED <<attachCalls, setSwapChainCalls, fetchVars, bridgeVars>>

\* Attacher::AttachSwapChain(swapchainPtr). qiOk: the QueryInterface for
\* ISwapChainPanelNative succeeds; hrOk: SetSwapChain returns a success HRESULT.
AttachSwapChain(swapchainPtr, qiOk, hrOk) ==
    /\ attachCalls < MaxAttach
    /\ attachCalls' = attachCalls + 1
    /\ m_lastSwapchainPtr' = swapchainPtr
    /\ setSwapChainCalls' =
         IF IsIgnoredHandle(swapchainPtr) THEN setSwapChainCalls
         ELSE IF attacher_m_panel = 0 THEN setSwapChainCalls
         ELSE IF ~qiOk THEN setSwapChainCalls
         ELSE Append(setSwapChainCalls, [ptr |-> swapchainPtr, ok |-> hrOk])
    /\ UNCHANGED <<attacher_m_panel, ctorPanelArg, attacherEscaped, fetchVars, bridgeVars>>

NewAttacher == \E panel \in PanelArgs : AttacherCtor(panel)

AttachCall ==
    \E swapchainPtr \in Handles, qiOk \in BOOLEAN, hrOk \in BOOLEAN :
        AttachSwapChain(swapchainPtr, qiOk, hrOk)

\* The state of Attacher(nullptr).
InitAttacher ==
    /\ attacher_m_panel = 0
    /\ m_lastSwapchainPtr = Zero64
    /\ attachCalls = 0
    /\ setSwapChainCalls = <<>>
    /\ ctorPanelArg = "null"
    /\ attacherEscaped = FALSE

NextAttacher ==
    \/ NewAttacher
    \/ AttachCall

(***************************************************************************)
(*                                BlitzView                                *)
(***************************************************************************)
Panels == 1..NumPanels

\* GetTemplateChild yields an element that is not a SwapChainPanel:
\* root.as<SwapChainPanel>() throws and m_panel stays null.
OtherElement == -1

TemplateChildren == {0, OtherElement} \cup Panels

Events == {"Loaded", "SizeChanged", "PointerMoved", "PointerPressed",
           "PointerReleased", "PointerWheelChanged"}

\* An event source hands out a non-zero token not used by a live registration.
NewToken(S) ==
    CHOOSE t \in 1..(Cardinality(S) + 1) : t \notin S /\ \A u \in 1..(t - 1) : u \in S

\* What lastEvent holds after a handler that forwarded no pointer or wheel event.
NoEvent == [kind |-> "none"]

\* The fields of the control, with the per-handler outputs cleared.
Self ==
    [m_panel |-> m_panel, m_attacher |-> m_attacher, m_host |-> m_host,
     m_renderLoopAttached |-> m_renderLoopAttached,
     m_renderingToken |-> m_renderingToken, eventTokens |-> eventTokens,
     panelSubs |-> panelSubs, frameSubs |-> frameSubs,
     frameTokensIssued |-> frameTokensIssued,
     calls |-> <<>>, handled |-> FALSE, fault |-> fault, event |-> NoEvent,
     hostsConstructed |-> hostsConstructed, subsAtBind |-> subsAtBind]

Commit(b, op, child) ==
    /\ m_panel' = b.m_panel
    /\ m_attacher' = b.m_attacher
    /\ m_host' = b.m_host
    /\ m_renderLoopAttached' = b.m_renderLoopAttached
    /\ m_renderingToken' = b.m_renderingToken
    /\ eventTokens' = b.eventTokens
    /\ panelSubs' = b.panelSubs
    /\ frameSubs' = b.frameSubs
    /\ frameTokensIssued' = b.frameTokensIssued
    /\ calls' = b.calls
    /\ handled' = b.handled
    /\ fault' = b.fault
    /\ hostsConstructed' = b.hostsConstructed
    /\ subsAtBind' = b.subsAtBind
    /\ lastOp' = op
    /\ lastEvent' = b.event
    /\ templateChild' = child
    /\ UNCHANGED <<fetchVars, attacherVars>>

\* A call of a Host method through m_host; `throws`: the host fails the call.
\* A call through a null m_host is a fault.
HostCall(b, op, args, throws) ==
    IF b.m_host = NoHost
    THEN [b EXCEPT !.fault = TRUE]
    ELSE [b EXCEPT !.calls = Append(@, [op |-> op, args |-> args, threw |-> throws])]

\* What the handlers read from the framework: the rasterization scale of the
\* XamlRoot (in percent; hasRoot = FALSE: XamlRoot() is null) and the panel's
\* ActualWidth / ActualHeight (in half pixels).
Scales == {150}

Layouts ==
    {[hasRoot |-> r, rasterScale |-> s, w |-> z[1], h |-> z[2]] :
        r \in BOOLEAN, s \in Scales,
        z \in {<<0, 0>>, <<1, 5>>, <<5, 2>>}} \
    {[hasRoot |-> FALSE, rasterScale |-> s, w |-> 1, h |-> 5] : s \in Scales}

ScaleOf(env) == IF env.hasRoot THEN env.rasterScale ELSE 100

\* std::max<uint32_t>(1, static_cast<uint32_t>(actual))
ClampedSizeUnclamped(halfPixels) == halfPixels \div 2

ClampedSize(halfPixels) ==
    LET truncated == halfPixels \div 2 IN IF truncated < 1 THEN 1 ELSE truncated

\* BlitzView::EnsureRenderLoop
EnsureRenderLoopUnguarded(b) ==
    LET token == b.frameTokensIssued + 1 IN
    [b EXCEPT !.frameSubs = @ \cup {token},
              !.frameTokensIssued = token,
              !.m_renderingToken = token,
              !.m_renderLoopAttached = TRUE]

EnsureRenderLoopSkipped(b) == b

EnsureRenderLoop(b) ==
    IF b.m_renderLoopAttached THEN b
    ELSE LET token == b.frameTokensIssued + 1 IN
         [b EXCEPT !.frameSubs = @ \cup {token},
                   !.frameTokensIssued = token,
                   !.m_renderingToken = token,
                   !.m_renderLoopAttached = TRUE]

\* BlitzView::StopRenderLoop
StopRenderLoop(b) ==
    IF ~b.m_renderLoopAttached THEN b
    ELSE [b EXCEPT !.frameSubs = @ \ {b.m_renderingToken},
                   !.m_renderLoopAttached = FALSE]

\* Line 32: if (m_host || !m_panel) return;
InitGuardPanelOnly(b) == b.m_panel = 0

InitGuard(b) == b.m_host # NoHost \/ b.m_panel = 0

\* BlitzView::InitializeHostIfReady. env.child: the template part; env.attOk /
\* env.hostOk: the Attacher / Host constructor succeeds.
InitializeHostIfReady(b, env) ==
    LET b1 == IF b.m_panel = 0 /\ env.child \in Panels
              THEN [b EXCEPT !.m_panel = env.child] ELSE b
    IN
    IF InitGuard(b1) THEN b1
    ELSE
    LET b2 == [b1 EXCEPT !.m_attacher = IF env.attOk THEN b1.m_panel ELSE 0] IN
    IF b2.m_attacher = 0 THEN b2
    ELSE
    LET width == ClampedSize(env.w)
        height == ClampedSize(env.h)
        b3 == [b2 EXCEPT !.calls =
                  Append(@, [op |-> "Host",
                             args |-> <<b2.m_attacher, width, height, ScaleOf(env)>>,
                             threw |-> ~env.hostOk])]
    IN
    IF ~env.hostOk THEN [b3 EXCEPT !.m_host = NoHost]
    ELSE EnsureRenderLoop([b3 EXCEPT !.m_host = b2.m_attacher,
                                     !.hostsConstructed = @ + 1])

\* BlitzView::OnRendering
OnRenderingStopsOnFailure(b, throws) ==
    IF b.m_host = NoHost THEN b
    ELSE IF throws THEN StopRenderLoop(HostCall(b, "RenderOnce", <<>>, throws))
    ELSE HostCall(b, "RenderOnce", <<>>, throws)

OnRendering(b, throws) ==
    IF b.m_host # NoHost THEN HostCall(b, "RenderOnce", <<>>, throws) ELSE b

\* if (!m_host || !m_panel) return;
ForwardGuardPanelOnly(b) == b.m_panel = 0

ForwardGuard(b) == b.m_host = NoHost \/ b.m_panel = 0

\* BlitzView::ForwardResize
ForwardResize(b, env, throws) ==
    IF ForwardGuard(b) THEN b
    ELSE HostCall(b, "Resize",
                  <<ClampedSize(env.w), ClampedSize(env.h), ScaleOf(env)>>, throws)

Bit(flag, value) == IF flag THEN value ELSE 0

\* buttons |= 1, 2, 4, 8, 16 for left, right, middle, XButton1, XButton2
ButtonMask(e) ==
    Bit("left" \in e.pressed, 1) + Bit("right" \in e.pressed, 2)
        + Bit("middle" \in e.pressed, 4) + Bit("x1" \in e.pressed, 8)
        + Bit("x2" \in e.pressed, 16)

\* BlitzView::PanelPointerMoved
PanelPointerMoved(b, e, throws) ==
    IF ForwardGuard(b) THEN b
    ELSE HostCall(b, "PointerMove", <<e.x, e.y, ButtonMask(e), e.mods>>, throws)

\* BlitzView::PanelPointerPressed
PanelPointerPressed(b, e, throws) ==
    IF ForwardGuard(b) THEN b
    ELSE LET button == IF "right" \in e.pressed THEN 2
                       ELSE IF "middle" \in e.pressed THEN 1 ELSE 0 IN
         HostCall(b, "PointerDown", <<e.x, e.y, button, ButtonMask(e), e.mods>>, throws)

\* BlitzView::PanelPointerReleased
PanelPointerReleased(b, e, throws) ==
    IF ForwardGuard(b) THEN b
    ELSE HostCall(b, "PointerUp", <<e.x, e.y, 0, 0, e.mods>>, throws)

\* VirtualKeyModifiers::Shift
ShiftModifier == 4

HasShift(mods) == (mods \div ShiftModifier) % 2 = 1

\* raw / 120.0 * linesPerNotch * pixelsPerLine, in thousandths of a pixel
\* (1000 * 48 / 120 = 400 per unit of raw delta).
WheelDistanceWholeNotches(raw) == (raw \div 120) * 48000

WheelDistance(raw) == raw * 400

\* BlitzView::PanelPointerWheelChanged
PanelPointerWheelChangedHandledOnSuccess(b, e, throws) ==
    IF ForwardGuard(b) THEN b
    ELSE LET dy0 == WheelDistance(e.raw)
             dx == IF HasShift(e.mods) THEN dy0 ELSE 0
             dy == IF HasShift(e.mods) THEN 0 ELSE dy0
             b1 == HostCall(b, "WheelScroll", <<dx, dy>>, throws)
         IN [b1 EXCEPT !.handled = ~throws]

PanelPointerWheelChanged(b, e, throws) ==
    IF ForwardGuard(b) THEN b
    ELSE LET dy0 == WheelDistance(e.raw)
             dx == IF HasShift(e.mods) THEN dy0 ELSE 0
             dy == IF HasShift(e.mods) THEN 0 ELSE dy0
             b1 == HostCall(b, "WheelScroll", <<dx, dy>>, throws)
         IN [b1 EXCEPT !.handled = TRUE]

\* Lines 186-198: remove every handler whose token is set, from the bound panel.
ClearTokensSkipped(b) == b

ClearTokens(b) ==
    IF b.m_panel = 0 THEN b
    ELSE [b EXCEPT
            !.panelSubs[b.m_panel] =
                [e \in Events |-> IF b.eventTokens[e] # 0
                                  THEN @[e] \ {b.eventTokens[e]} ELSE @[e]],
            !.eventTokens = [e \in Events |-> 0]]

\* The number of handlers the control has registered, over all panels and events.
SubscriptionCount(b) ==
    Cardinality(UNION {{<<p, e, t>> : t \in b.panelSubs[p][e]} :
                          p \in Panels, e \in Events})

\* Lines 202-210: subscribe the six handlers on the bound panel.
Subscribe(b) ==
    IF b.m_panel = 0 THEN b
    ELSE LET tok == [e \in Events |-> NewToken(b.panelSubs[b.m_panel][e])] IN
         [b EXCEPT
            !.subsAtBind = SubscriptionCount(b),
            !.panelSubs[b.m_panel] = [e \in Events |-> @[e] \cup {tok[e]}],
            !.eventTokens = tok]

\* BlitzView::OnApplyTemplate
OnApplyTemplate(b, env) ==
    LET cleared == ClearTokens(b)
        unbound == [cleared EXCEPT !.m_panel = 0]
    IN Subscribe(InitializeHostIfReady(unbound, env))

\* An event source calls the handler once per registration.
RECURSIVE Repeat(_, _, _)
Repeat(H(_), b, n) == IF n = 0 THEN b ELSE Repeat(H, H(b), n - 1)

\* The handler's result, with the event behind its calls into the host on record.
Given(b, e) == IF b.calls = <<>> THEN b ELSE [b EXCEPT !.event = e]

\* What one run of InitializeHostIfReady meets. Without a panel in the template
\* the function returns before it reads anything else.
Envs(child) ==
    LET Env(a, o, l) ==
            [child |-> child, attOk |-> a, hostOk |-> o, hasRoot |-> l.hasRoot,
             rasterScale |-> l.rasterScale, w |-> l.w, h |-> l.h]
    IN IF child \in Panels
       THEN {Env(a, o, l) : a \in BOOLEAN, o \in BOOLEAN, l \in Layouts}
       ELSE {Env(TRUE, TRUE, l) : l \in {[hasRoot |-> FALSE, rasterScale |-> 100,
                                           w |-> 0, h |-> 0]}}

Points == {<<10, 20>>}

\* The buttons a pointer point reports pressed (IsLeftButtonPressed, ...).
ButtonStates ==
    {{}, {"left"}, {"right"}, {"middle"}, {"x1"}, {"x2"}, {"left", "right"},
     {"right", "middle"}, {"left", "right", "middle", "x1", "x2"}}

\* Pointer events: every button state, with no modifier key when at most one
\* button is down and with Control + Shift otherwise.
PointerEvents ==
    {[pressed |-> s, mods |-> IF Cardinality(s) <= 1 THEN 0 ELSE 5,
      x |-> p[1], y |-> p[2]] : s \in ButtonStates, p \in Points}

\* The buttons PanelPointerPressed and PanelPointerReleased have a code for.
MainButtons == {"left", "middle", "right"}

\* A press or release event also tells which button changed
\* (PointerPointProperties::PointerUpdateKind), in `trigger`.
WithTrigger(e, t) ==
    [pressed |-> e.pressed, mods |-> e.mods, x |-> e.x, y |-> e.y, trigger |-> t]

\* Press events: the button that went down is among those reported pressed.
PressedEvents ==
    UNION {{WithTrigger(e, t) :
               t \in IF e.pressed \cap MainButtons # {}
                     THEN e.pressed \cap MainButtons ELSE e.pressed} :
           e \in PointerEvents}

\* Release events: the button that went up is no longer reported pressed.
ReleasedEvents ==
    UNION {{WithTrigger(e, t) : t \in MainButtons \ e.pressed} : e \in PointerEvents}

\* Wheel events: whole and partial notches in both directions, without and with Shift.
WheelEvents ==
    {[raw |-> 120, mods |-> 0], [raw |-> -120, mods |-> 0],
     [raw |-> 120, mods |-> ShiftModifier], [raw |-> -120, mods |-> 5],
     [raw |-> 60, mods |-> ShiftModifier], [raw |-> 1, mods |-> 0]}

Registered(p, event) == Cardinality(panelSubs[p][event])

\* The framework applies a template (whose part is `child`) and calls OnApplyTemplate.
ApplyTemplate ==
    \E child \in TemplateChildren : \E env \in Envs(child) :
        Commit(OnApplyTemplate(Self, env), "OnApplyTemplate", child)

\* BlitzView::OnPanelLoaded, run for a Loaded event of panel p.
PanelLoaded ==
    \E p \in Panels :
        /\ Registered(p, "Loaded") > 0
        /\ \E env \in Envs(templateChild) :
           Commit(Repeat(LAMBDA b : InitializeHostIfReady(b, env), Self,
                         Registered(p, "Loaded")),
                  "OnPanelLoaded", templateChild)

\* BlitzView::OnPanelSizeChanged, run for a SizeChanged event of panel p.
PanelSizeChanged ==
    \E p \in Panels :
        /\ Registered(p, "SizeChanged") > 0
        /\ \E throws \in BOOLEAN, env \in Layouts :
           Commit(Given(Repeat(LAMBDA b : ForwardResize(b, env, throws), Self,
                               Registered(p, "SizeChanged")), env),
                  "OnPanelSizeChanged", templateChild)

\* The panel's pointer events, delivered to the handlers OnApplyTemplate registered.
PanelMoved ==
    \E p \in Panels :
        /\ Registered(p, "PointerMoved") > 0
        /\ \E e \in PointerEvents, throws \in BOOLEAN :
           Commit(Given(Repeat(LAMBDA b : PanelPointerMoved(b, e, throws), Self,
                               Registered(p, "PointerMoved")), e),
                  "PanelPointerMoved", templateChild)

PanelPressed ==
    \E p \in Panels :
        /\ Registered(p, "PointerPressed") > 0
        /\ \E e \in PressedEvents, throws \in BOOLEAN :
           Commit(Given(Repeat(LAMBDA b : PanelPointerPressed(b, e, throws), Self,
                               Registered(p, "PointerPressed")), e),
                  "PanelPointerPressed", templateChild)

PanelReleased ==
    \E p \in Panels :
        /\ Registered(p, "PointerReleased") > 0
        /\ \E e \in ReleasedEvents, throws \in BOOLEAN :
           Commit(Given(Repeat(LAMBDA b : PanelPointerReleased(b, e, throws), Self,
                               Registered(p, "PointerReleased")), e),
                  "PanelPointerReleased", templateChild)

PanelWheel ==
    \E p \in Panels :
        /\ Registered(p, "PointerWheelChanged") > 0
        /\ \E e \in WheelEvents, throws \in BOOLEAN :
           Commit(Given(Repeat(LAMBDA b : PanelPointerWheelChanged(b, e, throws), Self,
                               Registered(p, "PointerWheelChanged")), e),
                  "PanelPointerWheelChanged", templateChild)

\* The control's own overrides (lines 215-222), which forward to the same handlers.
OnPointerMoved ==
    \E e \in PointerEvents, throws \in BOOLEAN :
        Commit(Given(PanelPointerMoved(Self, e, throws), e), "OnPointerMoved",
               templateChild)

OnPointerPressed ==
    \E e \in PressedEvents, throws \in BOOLEAN :
        Commit(Given(PanelPointerPressed(Self, e, throws), e), "OnPointerPressed",
               templateChild)

OnPointerReleased ==
    \E e \in ReleasedEvents, throws \in BOOLEAN :
        Commit(Given(PanelPointerReleased(Self, e, throws), e), "OnPointerReleased",
               templateChild)

OnPointerWheelChanged ==
    \E e \in WheelEvents, throws \in BOOLEAN :
        Commit(Given(PanelPointerWheelChanged(Self, e, throws), e),
               "OnPointerWheelChanged", templateChild)

\* A frame tick: CompositionTarget::Rendering calls OnRendering per registration.
RenderingTick ==
    \E throws \in BOOLEAN :
        /\ frameSubs # {}
        /\ Commit(Repeat(LAMBDA b : OnRendering(b, throws), Self,
                         Cardinality(frameSubs)),
                  "OnRendering", templateChild)

\* The XamlRoot raises Changed (the rasterization scale changed). The control
\* declares OnXamlRootChanged and m_xamlRootChangedToken (BlitzView.h) but
\* registers no handler for the event, so none of its code runs.
XamlRootChanged ==
    Commit(Self, "XamlRootChanged", templateChild)

\* Direct calls of the render-loop controller's start() and stop().
StartRenderLoop ==
    /\ frameTokensIssued < MaxStarts
    /\ Commit(EnsureRenderLoop(Self), "EnsureRenderLoop", templateChild)

StopRenderLoopCall ==
    Commit(StopRenderLoop(Self), "StopRenderLoop", templateChild)

\* The state after BlitzView::BlitzView().
InitBridge ==
    /\ m_panel = 0
    /\ m_attacher = 0
    /\ m_host = NoHost
    /\ m_renderLoopAttached = FALSE
    /\ m_renderingToken = 0
    /\ eventTokens = [e \in Events |-> 0]
    /\ templateChild = 0
    /\ panelSubs = [p \in Panels |-> [e \in Events |-> {}]]
    /\ frameSubs = {}
    /\ frameTokensIssued = 0
    /\ calls = <<>>
    /\ handled = FALSE
    /\ fault = FALSE
    /\ lastOp = "BlitzView"
    /\ lastEvent = NoEvent
    /\ hostsConstructed = 0
    /\ subsAtBind = 0

\* The control as the framework drives it.
Next ==
    \/ ApplyTemplate
    \/ PanelLoaded
    \/ PanelSizeChanged
    \/ PanelMoved
    \/ PanelPressed
    \/ PanelReleased
    \/ PanelWheel
    \/ OnPointerMoved
    \/ OnPointerPressed
    \/ OnPointerReleased
    \/ OnPointerWheelChanged
    \/ RenderingTick
    \/ XamlRootChanged

\* The same, with the render-loop controller also driven directly.
NextLoop ==
    \/ Next
    \/ StartRenderLoop
    \/ StopRenderLoopCall

\* One native pointer event on the bound panel, a routed event: the panel
\* raises it to the handlers OnApplyTemplate registered (lines 205-208), and,
\* unless a handler marked it Handled, it bubbles to the control the panel is a
\* template part of, whose OnPointer* override (lines 215-222) runs next.
NativePointerMoved ==
    /\ m_panel # 0
    /\ \E e \in PointerEvents, throws \in BOOLEAN :
        LET viaPanel == Repeat(LAMBDA b : PanelPointerMoved(b, e, throws), Self,
                               Registered(m_panel, "PointerMoved"))
            viaControl == IF viaPanel.handled THEN viaPanel
                          ELSE PanelPointerMoved(viaPanel, e, throws)
        IN Commit(Given(viaControl, e), "NativePointerMoved", templateChild)

NativePointerPressed ==
    /\ m_panel # 0
    /\ \E e \in PressedEvents, throws \in BOOLEAN :
        LET viaPanel == Repeat(LAMBDA b : PanelPointerPressed(b, e, throws), Self,
                               Registered(m_panel, "PointerPressed"))
            viaControl == IF viaPanel.handled THEN viaPanel
                          ELSE PanelPointerPressed(viaPanel, e, throws)
        IN Commit(Given(viaControl, e), "NativePointerPressed", templateChild)

NativePointerReleased ==
    /\ m_panel # 0
    /\ \E e \in ReleasedEvents, throws \in BOOLEAN :
        LET viaPanel == Repeat(LAMBDA b : PanelPointerReleased(b, e, throws), Self,
                               Registered(m_panel, "PointerReleased"))
            viaControl == IF viaPanel.handled THEN viaPanel
                          ELSE PanelPointerReleased(viaPanel, e, throws)
        IN Commit(Given(viaControl, e), "NativePointerReleased", templateChild)

NativePointerWheelChanged ==
    /\ m_panel # 0
    /\ \E e \in WheelEvents, throws \in BOOLEAN :
        LET viaPanel == Repeat(LAMBDA b : PanelPointerWheelChanged(b, e, throws), Self,
                               Registered(m_panel, "PointerWheelChanged"))
            viaControl == IF viaPanel.handled THEN viaPanel
                          ELSE PanelPointerWheelChanged(viaPanel, e, throws)
        IN Commit(Given(viaControl, e), "NativePointerWheelChanged", templateChild)

\* The control as the framework drives it, with native pointer events routed
\* through both delivery paths.
NextRouted ==
    \/ Next
    \/ NativePointerMoved
    \/ NativePointerPressed
    \/ NativePointerReleased
    \/ NativePointerWheelChanged

(***************************************************************************)
(*                             Specifications                              *)
(***************************************************************************)
Init == InitFetch /\ InitAttacher /\ InitBridge

Spec == Init /\ [][Next]_vars

SpecLoop == Init /\ [][NextLoop]_vars

SpecRouted == Init /\ [][NextRouted]_vars

SpecFetch == Init /\ [][NextFetch]_vars

SpecLifetime == Init /\ [][NextLifetime]_vars

SpecAttacher == Init /\ [][NextAttacher]_vars

(***************************************************************************)
(*                     Properties of the NetworkFetcher                    *)
(***************************************************************************)
FrameEnded(i) == frames[i].pc \in {"done", "terminated"}

\* Frame i made a CompleteFetch call in this step.
Delivers(i) ==
    /\ i \in DOMAIN frames'
    /\ Len(frames'[i].calls) > (IF i \in DOMAIN frames THEN Len(frames[i].calls) ELSE 0)

\* C1: every fetch issued while the host is live gets exactly one CompleteFetch
\* call: never two, and one once its coroutine has ended, whatever the request
\* met and whatever the delivery call itself returned.
C1_ExactlyOneCompletion ==
    \A i \in DOMAIN frames : frames[i].hostAtIssue =>
        /\ Len(frames[i].calls) <= 1
        /\ FrameEnded(i) => Len(frames[i].calls) = 1

\* C6: with a live host, a success response delivers exactly (true, the full
\* body, ""); every other outcome (bad url, transport error, non-success status,
\* a failed read, any other fault) delivers exactly (false, empty, a non-empty
\* message); and no fault leaves the coroutine.
C6_ResultDeterminedByOutcome ==
    /\ ~f_terminated
    /\ fetcher_m_host # NoHost =>
         \A i \in DOMAIN frames : FrameEnded(i) =>
            /\ Len(frames[i].calls) = 1
            /\ LET c == frames[i].calls[1] IN
               IF frames[i].outcome = "success"
               THEN c.success /\ c.bytes = frames[i].body /\ c.errorMessage = ""
               ELSE ~c.success /\ c.bytes = <<>> /\ c.errorMessage # ""

\* C7: every CompleteFetch call carries the requestId and docId of the request
\* whose coroutine made it, however the in-flight requests interleave.
C7_KeysEchoed ==
    \A i \in DOMAIN frames : \A k \in DOMAIN frames[i].calls :
        /\ frames[i].calls[k].requestId = frames[i].requestId
        /\ frames[i].calls[k].docId = frames[i].docId

\* C7 witness: two requests with different keys were in flight together and the
\* later one has delivered while the earlier one still waits for the network.
C7_Witness ==
    /\ Len(frames) >= 2
    /\ frames[1].requestId # frames[2].requestId
    /\ frames[1].pc \in {"awaitGet", "awaitRead"}
    /\ frames[2].pc = "done"
    /\ frames[2].outcome = "success"
    /\ Len(frames[2].calls) = 1

\* C8: a coroutine that resumes after the network operation calls CompleteFetch
\* on the UI thread only, and so never while the UI thread is inside the host.
C8_CompletionOnUIThread ==
    [][\A i \in DOMAIN frames :
          Delivers(i) => (f_thread' = "UI" /\ ~ui_in_host)]_vars

\* C9: a fetch issued while the bridge held the host, and completing after the
\* bridge gave the host up, makes no CompleteFetch call: a completion delivers
\* only while the host is still held.
C9_NoDeliveryAfterTeardown ==
    [][\A i \in DOMAIN frames :
          (frames[i].hostAtIssue /\ Delivers(i)) => ownerHoldsHost]_vars

\* C16: no CompleteFetch call is made inside the Fetch call that issues the
\* request: a frame delivers only in a step after the one that created it,
\* for every url.
C16_NoDeliveryInsideFetch ==
    [][\A i \in DOMAIN frames' : Delivers(i) => i \in DOMAIN frames]_vars

\* C23: the fetcher is alive (its reference count is at least 1) whenever one
\* of its coroutines is in flight and whenever one resumes, delivers or ends,
\* also after the owner has released its reference.
C23_FetcherAliveWhileInFlight ==
    [][/\ (\E i \in DOMAIN frames' : frames'[i].pc \in {"awaitGet", "awaitRead"})
            => FetcherRefs' >= 1
       /\ \A i \in DOMAIN frames : frames'[i] # frames[i] => FetcherRefs >= 1]_vars

\* C23 witness: the owner has released the fetcher while its first request had
\* got its response and waits for the body: the frame holds the only reference.
C23_Witness ==
    /\ ~ownerHoldsFetcher
    /\ Len(frames) = 1
    /\ frames[1].pc = "awaitRead"
    /\ FetcherRefs = 1

(***************************************************************************)
(*                        Properties of the Attacher                       *)
(***************************************************************************)
\* C3: no AttachSwapChain call with handle 0 or 0xFEEDFACECAFEBEEF is forwarded
\* to the panel's SetSwapChain, whether the attacher holds a panel or not.
C3_NullAndSentinelNeverForwarded ==
    [][(attachCalls' = attachCalls + 1
          /\ m_lastSwapchainPtr' \in {Zero64, Sentinel64})
        => setSwapChainCalls' = setSwapChainCalls]_vars

\* C3 witness: an attacher that holds a panel and has forwarded a real handle
\* was then given the sentinel.
C3_Witness ==
    /\ attacher_m_panel = 1
    /\ m_lastSwapchainPtr = Sentinel64
    /\ Len(setSwapChainCalls) = 1
    /\ attachCalls = 2

\* C14: an attacher constructed with no panel, or with an object that is not
\* a SwapChainPanel, holds no panel and its construction did not fail; an
\* attach on an attacher without a panel forwards nothing; and no attach call,
\* whether the capability query or the platform call fails, lets an exception
\* out or changes the attacher's panel.
C14_AttacherFailuresNonFatal ==
    [][/\ ~attacherEscaped'
       /\ ctorPanelArg' \in {"null", "other"} => attacher_m_panel' = 0
       /\ attachCalls' = attachCalls + 1 =>
            /\ attacher_m_panel' = attacher_m_panel
            /\ attacher_m_panel = 0 => setSwapChainCalls' = setSwapChainCalls]_vars

\* C14 witness: an attacher constructed with an object that is not a
\* SwapChainPanel was given a real handle and forwarded nothing.
C14_Witness ==
    /\ ctorPanelArg = "other"
    /\ attacher_m_panel = 0
    /\ attachCalls = 1
    /\ m_lastSwapchainPtr = <<0, 0, 0, 1>>
    /\ setSwapChainCalls = <<>>
    /\ ~attacherEscaped

(***************************************************************************)
(*                        Properties of BlitzView                          *)
(***************************************************************************)
loopFields == <<m_renderLoopAttached, m_renderingToken, frameSubs, frameTokensIssued>>

\* C2: after every step the frame clock holds one subscription of the bridge
\* when the loop is attached and none when it is detached; start() leaves the
\* loop attached and changes nothing when it already was, stop() leaves it
\* detached and changes nothing when it already was.
C2_OneSubscriptionIffAttached ==
    [][/\ Cardinality(frameSubs') = (IF m_renderLoopAttached' THEN 1 ELSE 0)
       /\ lastOp' = "EnsureRenderLoop" =>
            /\ m_renderLoopAttached'
            /\ m_renderLoopAttached => UNCHANGED loopFields
       /\ lastOp' = "StopRenderLoop" =>
            /\ ~m_renderLoopAttached'
            /\ ~m_renderLoopAttached => UNCHANGED loopFields]_vars

\* C2 witness: start() after a stop(): the loop is attached again, with the
\* second token the frame clock issued as its only subscription.
C2_Witness ==
    /\ lastOp = "EnsureRenderLoop"
    /\ m_renderLoopAttached
    /\ m_renderingToken = 2
    /\ frameSubs = {2}

PanelHandlerOps == {"PanelPointerMoved", "PanelPointerPressed", "PanelPointerReleased",
                    "PanelPointerWheelChanged", "OnPanelSizeChanged"}

ForwardingOps ==
    PanelHandlerOps \cup {"OnPointerMoved", "OnPointerPressed", "OnPointerReleased",
                          "OnPointerWheelChanged", "OnRendering"}

\* C5: a pointer, wheel, resize or render-tick handler that runs while m_host is
\* null calls nothing on the host, does not fault, does not mark the event
\* handled and leaves every field of the control as it was.
C5_ForwardingWithoutHostIsNoOp ==
    [][(m_host = NoHost /\ lastOp' \in ForwardingOps) =>
          /\ calls' = <<>>
          /\ ~fault'
          /\ ~handled'
          /\ UNCHANGED <<m_panel, m_attacher, m_host, eventTokens, panelSubs,
                         loopFields, hostsConstructed, subsAtBind>>]_vars

\* C5 witness: a pointer-move handler ran on a bound panel whose host could not
\* be constructed.
C5_Witness ==
    /\ lastOp = "PanelPointerMoved"
    /\ m_panel # 0
    /\ m_host = NoHost

HostCtorCalls(cs) == {k \in DOMAIN cs : cs[k].op = "Host"}

\* C10: InitializeHostIfReady (run by OnPanelLoaded and OnApplyTemplate)
\* constructs nothing when a host exists or no panel is bound; at most one host
\* is ever constructed; a Host constructor call is made with a constructed
\* attacher; and when the attacher or the host constructor fails, the control
\* has no host, no render-loop subscription, and no fault escapes.
C10_InitializeHostGuarded ==
    [][lastOp' \in {"OnPanelLoaded", "OnApplyTemplate"} =>
          /\ hostsConstructed' <= 1
          /\ (m_host # NoHost \/ m_panel' = 0) =>
                /\ HostCtorCalls(calls') = {}
                /\ UNCHANGED <<m_host, m_attacher, loopFields, hostsConstructed>>
          /\ \A k \in HostCtorCalls(calls') :
                m_attacher' # 0 /\ calls'[k].args[1] = m_attacher'
          /\ ((m_host = NoHost /\ m_panel' # 0 /\ m_attacher' = 0)
                \/ \E k \in HostCtorCalls(calls') : calls'[k].threw) =>
                /\ m_host' = NoHost
                /\ ~m_renderLoopAttached'
                /\ frameSubs' = {}
                /\ ~fault'
                /\ hostsConstructed' = hostsConstructed]_vars

\* C10 witness: the panel is bound, an attacher was constructed, and the Host
\* constructor that OnPanelLoaded then called failed.
C10_Witness ==
    /\ lastOp = "OnPanelLoaded"
    /\ m_panel # 0
    /\ m_attacher # 0
    /\ m_host = NoHost
    /\ Len(calls) = 1
    /\ calls[1].op = "Host"
    /\ calls[1].threw

\* C17: a frame tick makes exactly one RenderOnce call when a host exists and
\* none when it does not; whether or not the call fails, no fault escapes and
\* the loop stays attached with its subscription, so the next tick comes.
C17_OneRenderOncePerTick ==
    [][lastOp' = "OnRendering" =>
          /\ m_host # NoHost => (Len(calls') = 1 /\ calls'[1].op = "RenderOnce")
          /\ m_host = NoHost => calls' = <<>>
          /\ ~fault'
          /\ m_renderLoopAttached'
          /\ frameSubs' # {}
          /\ UNCHANGED <<loopFields, m_host>>]_vars

\* C17 witness: a tick whose RenderOnce call failed; the loop is still attached.
C17_Witness ==
    /\ lastOp = "OnRendering"
    /\ Len(calls) = 1
    /\ calls[1].op = "RenderOnce"
    /\ calls[1].threw
    /\ m_renderLoopAttached
    /\ Cardinality(frameSubs) = 1

\* C18: a render-loop subscription exists only with a host, a host only with
\* an attacher; the loop becomes attached only in a step that constructs a
\* host, and every step that constructs a host leaves the loop attached.
C18_LoopOnlyWithHost ==
    [][/\ (m_renderLoopAttached' \/ frameSubs' # {}) => m_host' # NoHost
       /\ m_host' # NoHost => m_attacher' # 0
       /\ (m_renderLoopAttached' /\ ~m_renderLoopAttached) =>
             hostsConstructed' = hostsConstructed + 1
       /\ hostsConstructed' > hostsConstructed =>
             (m_renderLoopAttached' /\ Cardinality(frameSubs') = 1)]_vars

\* C18 witness: the Loaded handler constructed the host (the attempt made when
\* the template was applied had failed) and the loop is attached.
C18_Witness ==
    /\ lastOp = "OnPanelLoaded"
    /\ hostsConstructed = 1
    /\ m_host # NoHost
    /\ m_attacher # 0
    /\ m_renderLoopAttached
    /\ frameSubs = {m_renderingToken}

\* C19: a host exists only while a panel is bound, and it presents into the
\* bound panel; the render loop is attached only while a panel is bound.
C19_HostFollowsPanel ==
    /\ m_host # NoHost => (m_panel # 0 /\ m_host = m_panel)
    /\ m_renderLoopAttached => m_panel # 0

\* C20: with a host, every change of the panel's size and every change of the
\* display scale makes a Resize call; the one for a size change carries the
\* clamped new size and the current scale.
C20_ResizeOnSizeOrScaleChange ==
    [][(lastOp' \in {"OnPanelSizeChanged", "XamlRootChanged"}
          /\ m_host # NoHost /\ m_panel # 0) =>
          /\ Len(calls') = 1
          /\ calls'[1].op = "Resize"
          /\ lastOp' = "OnPanelSizeChanged" =>
                LET AtLeastOne(n) == IF n < 1 THEN 1 ELSE n IN
                calls'[1].args =
                    <<AtLeastOne(lastEvent'.w \div 2), AtLeastOne(lastEvent'.h \div 2),
                      IF lastEvent'.hasRoot THEN lastEvent'.rasterScale ELSE 100>>]_vars

(***************************************************************************)
(*                  Properties of the values forwarded                     *)
(***************************************************************************)
\* The width and height arguments of a Host constructor or Resize call.
ForwardedSize(c) ==
    IF c.op = "Host" THEN <<c.args[2], c.args[3]>> ELSE <<c.args[1], c.args[2]>>

\* C11: every width and every height handed to the Host constructor or to
\* Resize is at least 1, whatever size the panel reports, 0 x 0 and sizes
\* below one pixel included.
C11_SizesAtLeastOne ==
    \A k \in DOMAIN calls : calls[k].op \in {"Host", "Resize"} =>
        /\ ForwardedSize(calls[k])[1] >= 1
        /\ ForwardedSize(calls[k])[2] >= 1

\* C11 witness: the template was applied while the panel still reported 0 x 0
\* and no XamlRoot: the host was constructed with 1 x 1 at scale 100 %.
C11_Witness ==
    /\ lastOp = "OnApplyTemplate"
    /\ hostsConstructed = 1
    /\ Len(calls) = 1
    /\ calls[1].op = "Host"
    /\ ForwardedSize(calls[1]) = <<1, 1>>
    /\ calls[1].args[4] = 100

WheelOps == {"PanelPointerWheelChanged", "OnPointerWheelChanged"}

\* C12: a forwarded wheel event of raw delta r carries (0, r / 120 * 48)
\* without Shift and (r / 120 * 48, 0) with Shift (in thousandths of a pixel).
C12_WheelAxes ==
    lastOp \in WheelOps =>
        \A k \in DOMAIN calls :
            LET magnitude == (lastEvent.raw * 48 * 1000) \div 120
                shift == (lastEvent.mods \div ShiftModifier) % 2 = 1
            IN calls[k].op = "WheelScroll"
               /\ calls[k].args = IF shift THEN <<magnitude, 0>> ELSE <<0, magnitude>>

\* C12 witness: one notch with Shift held was forwarded as 48 pixels across.
C12_Witness ==
    /\ lastOp = "PanelPointerWheelChanged"
    /\ lastEvent = [raw |-> 120, mods |-> ShiftModifier]
    /\ Len(calls) = 1
    /\ calls[1].args = <<48000, 0>>

PointerOps == {"PanelPointerMoved", "PanelPointerPressed", "PanelPointerReleased",
               "OnPointerMoved", "OnPointerPressed", "OnPointerReleased"}

\* bit0 left, bit1 right, bit2 middle, bit3 extra1, bit4 extra2
ButtonBit == [left |-> 1, right |-> 2, middle |-> 4, x1 |-> 8, x2 |-> 16]

RECURSIVE OrOfBits(_)
OrOfBits(S) ==
    IF S = {} THEN 0
    ELSE LET b == CHOOSE x \in S : TRUE IN ButtonBit[b] + OrOfBits(S \ {b})

\* The buttonMask argument of a PointerMove, PointerDown or PointerUp call.
ForwardedMask(c) == IF c.op = "PointerMove" THEN c.args[3] ELSE c.args[4]

\* C13: the buttonMask of every forwarded pointer move, down and up is the OR
\* of the bits of exactly the buttons the event reports pressed.
C13_MaskIsOrOfPressed ==
    lastOp \in PointerOps =>
        \A k \in DOMAIN calls : ForwardedMask(calls[k]) = OrOfBits(lastEvent.pressed)

\* 0 = left, 1 = middle, 2 = right
ButtonCode == [left |-> 0, middle |-> 1, right |-> 2]

\* C15: the pressedButton of every forwarded pointer down and up is the code of
\* the button whose press or release raised the event, whatever else is held.
C15_PressedButtonIsTrigger ==
    (lastOp \in PointerOps /\ calls # <<>> /\ calls[1].op # "PointerMove"
        /\ lastEvent.trigger \in MainButtons) =>
        \A k \in DOMAIN calls : calls[k].args[3] = ButtonCode[lastEvent.trigger]

\* C22: a wheel handler that runs with a host and a panel makes its WheelScroll
\* call and marks the event Handled, also when the call fails; one that runs
\* without a host or without a panel makes no call and leaves Handled unset.
C22_ForwardedWheelIsHandled ==
    [][lastOp' \in WheelOps =>
          IF m_host = NoHost \/ m_panel = 0
          THEN calls' = <<>> /\ ~handled'
          ELSE /\ Len(calls') = 1
               /\ calls'[1].op = "WheelScroll"
               /\ handled']_vars

\* C22 witness: the WheelScroll call failed and the event is marked Handled.
C22_Witness ==
    /\ lastOp = "PanelPointerWheelChanged"
    /\ Len(calls) = 1
    /\ calls[1].op = "WheelScroll"
    /\ calls[1].threw
    /\ handled

NativePointerOps == {"NativePointerMoved", "NativePointerPressed", "NativePointerReleased"}

\* C21: a native pointer move, press or release on the bound panel makes
\* exactly one call into the host when a host exists (and none when it does
\* not), the panel subscription and the control's override counted together.
C21_OneCallPerNativeEvent ==
    [][lastOp' \in NativePointerOps =>
          Len(calls') = (IF m_host = NoHost THEN 0 ELSE 1)]_vars

====
